---- MODULE Spec2Model ----
(***************************************************************************)
(* Savings computation and state reconciliation of the CoCom calculator    *)
(* (CostSavingsCalculator, four categories: isp, voip, biznet, mobile).    *)
(*                                                                         *)
(* Amounts are whole dollars.  A JavaScript number is the tagged record    *)
(* Num(n); NaN, null and undefined are their own tagged values, so that    *)
(* the arithmetic and the comparisons of the code keep their JavaScript    *)
(* meaning on foreign values read from a snapshot.  A category record is a *)
(* function from field names to values; a missing optional field is a      *)
(* field name outside its DOMAIN.                                          *)
(***************************************************************************)
EXTENDS Integers, Sequences, FiniteSets, TLC

VARIABLES
    pc,            \* "boot": not mounted, "ready": mounted, "crashed": the initializer
                   \* threw; "eval" and "done": before and after a pure evaluation
    localStorage,  \* window.localStorage: key -> text
    url,           \* the text of the query parameter s of window.location
    rest,          \* the other parts of window.location: path, other parameters, hash
    entries,       \* window.history.length
    storageFull,   \* whether localStorage.setItem throws
    cached,        \* the initializer's local `cached` at the last mount
    s,             \* the initializer's local `s` at the last mount
    data,          \* useState data: category key -> CategoryInputs
    active,        \* useState active
    scope,         \* useState scope
    view,          \* useState view
    last,          \* the operation that ran last
    steps,         \* state changes, tab and scope clicks and reloads since the first mount (bounded by MaxSteps)
    arg,           \* argument record of a pure-function evaluation
    argKey,        \* category key of a pure-function evaluation
    res            \* result of a pure-function evaluation

vars == <<pc, localStorage, url, rest, entries, storageFull, cached, s, data, active,
          scope, view, last, steps, arg, argKey, res>>

(***************************************************************************)
(* Bounds of the model.                                                    *)
(***************************************************************************)
\* state changes, tab and scope clicks and reloads after the first mount
MaxSteps == 2
\* category keys held by one snapshot layer in the load specification
MaxSnapKeys == 1

(***************************************************************************)
(* JavaScript values.                                                      *)
(***************************************************************************)
Num(n) == [t |-> "num", n |-> n]
NaN == [t |-> "nan", n |-> 0]
Null == [t |-> "null", n |-> 0]
Undefined == [t |-> "undef", n |-> 0]

\* ToNumber of a value that is not NaN: null is 0
ToNumber(x) == IF x.t = "num" THEN x.n ELSE 0
\* NaN and undefined make an arithmetic result NaN
IsNaN(x) == x.t \in {"nan", "undef"}
Mul(a, b) == IF IsNaN(a) \/ IsNaN(b) THEN NaN ELSE Num(ToNumber(a) * ToNumber(b))
Add(a, b) == IF IsNaN(a) \/ IsNaN(b) THEN NaN ELSE Num(ToNumber(a) + ToNumber(b))
Sub(a, b) == IF IsNaN(a) \/ IsNaN(b) THEN NaN ELSE Num(ToNumber(a) - ToNumber(b))
\* Math.max(0, x)
Max0(x) == IF IsNaN(x) THEN NaN ELSE Num(IF ToNumber(x) > 0 THEN ToNumber(x) ELSE 0)
\* x > 0
Gt0(x) == ~IsNaN(x) /\ ToNumber(x) > 0
\* x < 0
Lt0(x) == ~IsNaN(x) /\ ToNumber(x) < 0
\* a > b
Gt(a, b) == ~IsNaN(a) /\ ~IsNaN(b) /\ ToNumber(a) > ToNumber(b)
\* the truthiness of a numeric value
Truthy(x) == x.t = "num" /\ x.n # 0
\* x || 0
OrZero(x) == IF Truthy(x) THEN x ELSE Num(0)
\* x ?? d
Coalesce(x, d) == IF x.t \in {"null", "undef"} THEN d ELSE x
\* Math.max(1, x)
Max1(x) == IF IsNaN(x) THEN NaN ELSE Num(IF ToNumber(x) > 1 THEN ToNumber(x) ELSE 1)

\* Infinity and -Infinity
Infinity == [t |-> "inf", n |-> 1]
MinusInfinity == [t |-> "inf", n |-> -1]
\* a quotient that is no whole number: n / d in lowest terms, d > 1
Ratio(n, d) == [t |-> "ratio", n |-> n, d |-> d]

Abs(x) == IF x < 0 THEN -x ELSE x
RECURSIVE GCD(_, _)
GCD(a, b) == IF b = 0 THEN a ELSE GCD(b, a % b)

\* x / y of two whole numbers, y # 0: the whole number or the ratio it is
Quot(x, y) ==
    LET g == GCD(Abs(x), Abs(y))
        n == (IF (x < 0) = (y < 0) THEN Abs(x) ELSE -Abs(x)) \div g
        d == Abs(y) \div g
    IN IF d = 1 THEN Num(n) ELSE Ratio(n, d)

\* a / b
Div(a, b) ==
    IF IsNaN(a) \/ IsNaN(b) THEN NaN
    ELSE IF ToNumber(b) = 0
    THEN (IF ToNumber(a) > 0 THEN Infinity
          ELSE IF ToNumber(a) < 0 THEN MinusInfinity ELSE NaN)
    ELSE Quot(ToNumber(a), ToNumber(b))

(***************************************************************************)
(* Objects: property read, spread and update.                              *)
(***************************************************************************)
StringFields == {"mode", "ispMode"}
BooleanFields == {"enabled", "bulkAgreement"}
\* i.f of a numeric field
NumField(i, f) == IF f \in DOMAIN i THEN i[f] ELSE Undefined
\* i.f of a string field ("" stands for undefined)
StrField(i, f) == IF f \in DOMAIN i THEN i[f] ELSE ""
\* a boolean field taken as set whenever it is present
BoolFieldPresent(i, f) == f \in DOMAIN i
\* the truthiness of i.f of a boolean field
BoolField(i, f) == f \in DOMAIN i /\ i[f]
\* { ...a, ...b }
Spread(a, b) == [f \in DOMAIN a \cup DOMAIN b |-> IF f \in DOMAIN b THEN b[f] ELSE a[f]]
\* { ...i, f: v }
With(i, f, v) == Spread(i, f :> v)

(***************************************************************************)
(* Types, labels and defaults.                                             *)
(***************************************************************************)
\* CategoryKey, in the key order of the defaults maps
CategoryKeys == <<"isp", "voip", "biznet", "mobile">>
Keys == {CategoryKeys[n] : n \in 1..Len(CategoryKeys)}

CATEGORY_LABELS ==
    [isp |-> "ISP Bulk Service", voip |-> "VoIP and POTS Cost Optimization",
     biznet |-> "Business Internet", mobile |-> "Mobile & Connectivity Plans"]

DEMO_DEFAULTS ==
    [isp |-> [mode |-> "perUnit", units |-> Num(120), currentMonthly |-> Num(55),
              proposedMonthly |-> Num(32), oneTimeCost |-> Num(5000),
              termMonths |-> Num(0), enabled |-> TRUE, ispMode |-> "current",
              resellPrice |-> Num(65), doorFeePerUnit |-> Num(200)],
     voip |-> [mode |-> "flat", units |-> Num(10), currentMonthly |-> Num(600),
               proposedMonthly |-> Num(30), oneTimeCost |-> Num(0),
               termMonths |-> Num(0), enabled |-> TRUE],
     biznet |-> [mode |-> "flat", units |-> Num(1), currentMonthly |-> Num(350),
                 proposedMonthly |-> Num(120), oneTimeCost |-> Num(0),
                 termMonths |-> Num(0), enabled |-> TRUE, bulkAgreement |-> FALSE],
     mobile |-> [mode |-> "perUnit", units |-> Num(40), currentMonthly |-> Num(45),
                 proposedMonthly |-> Num(28), oneTimeCost |-> Num(0),
                 termMonths |-> Num(24), enabled |-> TRUE]]

ZERO_DEFAULTS ==
    [isp |-> [mode |-> "perUnit", units |-> Num(0), currentMonthly |-> Num(0),
              proposedMonthly |-> Num(32), oneTimeCost |-> Num(5000),
              termMonths |-> Num(0), enabled |-> TRUE, ispMode |-> "current",
              resellPrice |-> Num(65), doorFeePerUnit |-> Num(200)],
     voip |-> [mode |-> "flat", units |-> Num(0), currentMonthly |-> Num(0),
               proposedMonthly |-> Num(30), oneTimeCost |-> Num(0),
               termMonths |-> Num(0), enabled |-> TRUE],
     biznet |-> [mode |-> "flat", units |-> Num(0), currentMonthly |-> Num(0),
                 proposedMonthly |-> Num(120), oneTimeCost |-> Num(0),
                 termMonths |-> Num(0), enabled |-> TRUE, bulkAgreement |-> FALSE],
     mobile |-> [mode |-> "perUnit", units |-> Num(0), currentMonthly |-> Num(0),
                 proposedMonthly |-> Num(0), oneTimeCost |-> Num(0),
                 termMonths |-> Num(0), enabled |-> TRUE]]

(***************************************************************************)
(* Math.                                                                   *)
(***************************************************************************)
\* computeMonthlyTotals without the floor of the savings at 0
computeMonthlyTotalsUnfloored(i) ==
    LET curr == IF i.mode = "flat" THEN i.currentMonthly
                ELSE Mul(i.units, i.currentMonthly)
        prop == IF i.mode = "flat" THEN i.proposedMonthly
                ELSE Mul(i.units, i.proposedMonthly)
    IN [current |-> curr, proposed |-> prop, savings |-> Sub(curr, prop)]

computeMonthlyTotals(i) ==
    LET curr == IF i.mode = "flat" THEN i.currentMonthly
                ELSE Mul(i.units, i.currentMonthly)
        prop == IF i.mode = "flat" THEN i.proposedMonthly
                ELSE Mul(i.units, i.proposedMonthly)
    IN [current |-> curr, proposed |-> prop, savings |-> Max0(Sub(curr, prop))]

\* the door-fee benefit of computeKPIs
doorBenefit(i) ==
    IF /\ StrField(i, "ispMode") = "new"
       /\ Truthy(NumField(i, "doorFeePerUnit"))
       /\ Truthy(i.units)
    THEN Mul(NumField(i, "doorFeePerUnit"), i.units)
    ELSE Num(0)

\* roi with the one-time cost not taken off the annual savings
roiOnGrossSavings(i, annual) ==
    IF Gt0(i.oneTimeCost) THEN Div(annual, Max1(i.oneTimeCost))
    ELSE IF Gt0(annual) THEN Infinity
    ELSE Num(0)

\* the roi of computeKPIs
roiOf(i, annual) ==
    IF Gt0(i.oneTimeCost) THEN Div(Sub(annual, i.oneTimeCost), Max1(i.oneTimeCost))
    ELSE IF Gt0(annual) THEN Infinity
    ELSE Num(0)

\* the paybackMonths of computeKPIs
paybackOf(i, savings) ==
    IF Gt0(i.oneTimeCost) /\ Gt0(savings) THEN Div(i.oneTimeCost, savings) ELSE Num(0)

\* reduction computed from the floored savings
reductionOfSavings(current, proposed) ==
    IF Gt0(current) THEN Div(Max0(Sub(current, proposed)), current) ELSE Num(0)

\* the reduction of computeKPIs
reductionOf(current, proposed) ==
    IF Gt0(current) THEN Div(Sub(current, proposed), current) ELSE Num(0)

\* computeKPIs with the door-fee benefit left out of the annual savings
computeKPIsNoBenefit(i) ==
    LET m == computeMonthlyTotals(i)
        annual == Mul(m.savings, Num(12))
    IN [current |-> m.current,
        proposed |-> m.proposed,
        monthlySavings |-> m.savings,
        annualSavings |-> annual,
        lifetimeSavings |-> IF Gt0(i.termMonths) THEN Mul(m.savings, i.termMonths)
                            ELSE Num(0),
        roi |-> roiOf(i, annual),
        paybackMonths |-> paybackOf(i, m.savings),
        reduction |-> reductionOf(m.current, m.proposed),
        doorBenefit |-> doorBenefit(i)]

\* computeKPIs reporting the fee per unit as the door-fee benefit
computeKPIsBenefitPerUnit(i) ==
    LET m == computeMonthlyTotals(i)
        annual == Add(Mul(m.savings, Num(12)), doorBenefit(i))
    IN [current |-> m.current,
        proposed |-> m.proposed,
        monthlySavings |-> m.savings,
        annualSavings |-> annual,
        lifetimeSavings |-> IF Gt0(i.termMonths) THEN Mul(m.savings, i.termMonths)
                            ELSE Num(0),
        roi |-> roiOf(i, annual),
        paybackMonths |-> paybackOf(i, m.savings),
        reduction |-> reductionOf(m.current, m.proposed),
        doorBenefit |-> IF doorBenefit(i) = Num(0) THEN Num(0)
                        ELSE NumField(i, "doorFeePerUnit")]

computeKPIs(i) ==
    LET m == computeMonthlyTotals(i)
        annual == Add(Mul(m.savings, Num(12)), doorBenefit(i))
    IN [current |-> m.current,
        proposed |-> m.proposed,
        monthlySavings |-> m.savings,
        annualSavings |-> annual,
        lifetimeSavings |-> IF Gt0(i.termMonths) THEN Mul(m.savings, i.termMonths)
                            ELSE Num(0),
        roi |-> roiOf(i, annual),
        paybackMonths |-> paybackOf(i, m.savings),
        reduction |-> reductionOf(m.current, m.proposed),
        doorBenefit |-> doorBenefit(i)]

\* the voip rule charging the fixed price whether used or not
voipUsedAlways(i) == TRUE

\* the voip rule's test of whether the service is used
voipUsed(i) ==
    IF i.mode = "flat" THEN Gt0(i.currentMonthly)
    ELSE Gt0(i.units) /\ Gt0(i.currentMonthly)

\* normalizeForComputation with the older rule that also forces voip to flat mode
normalizeForcingVoipFlat(k, i) ==
    IF k = "voip"
    THEN Spread(i, [mode |-> "flat",
                    proposedMonthly |-> IF voipUsed(i) THEN Num(30) ELSE Num(0)])
    ELSE IF k = "biznet"
    THEN Spread(i, [mode |-> "flat",
                    proposedMonthly |-> IF BoolField(i, "bulkAgreement") THEN Num(0)
                                        ELSE Num(120)])
    ELSE IF k = "isp" /\ StrField(i, "ispMode") = "new"
    THEN Spread(i, [mode |-> "perUnit",
                    currentMonthly |-> Coalesce(NumField(i, "resellPrice"), Num(65)),
                    proposedMonthly |-> Num(32), oneTimeCost |-> Num(0)])
    ELSE IF k = "isp" /\ StrField(i, "ispMode") # "new"
    THEN Spread(i, [mode |-> "perUnit", proposedMonthly |-> Num(32),
                    oneTimeCost |-> Num(5000)])
    ELSE i

\* normalizeForComputation fixing the prices only: mode and oneTimeCost are kept
normalizePricesOnly(k, i) ==
    IF k = "voip"
    THEN Spread(i, [proposedMonthly |-> IF voipUsed(i) THEN Num(30) ELSE Num(0)])
    ELSE IF k = "biznet"
    THEN Spread(i, [proposedMonthly |-> IF BoolField(i, "bulkAgreement") THEN Num(0)
                                        ELSE Num(120)])
    ELSE IF k = "isp" /\ StrField(i, "ispMode") = "new"
    THEN Spread(i, [currentMonthly |-> Coalesce(NumField(i, "resellPrice"), Num(65)),
                    proposedMonthly |-> Num(32)])
    ELSE IF k = "isp" /\ StrField(i, "ispMode") # "new"
    THEN Spread(i, [proposedMonthly |-> Num(32)])
    ELSE i

normalizeForComputation(k, i) ==
    IF k = "voip"
    THEN Spread(i, [proposedMonthly |-> IF voipUsed(i) THEN Num(30) ELSE Num(0)])
    ELSE IF k = "biznet"
    THEN Spread(i, [mode |-> "flat",
                    proposedMonthly |-> IF BoolField(i, "bulkAgreement") THEN Num(0)
                                        ELSE Num(120)])
    ELSE IF k = "isp" /\ StrField(i, "ispMode") = "new"
    THEN Spread(i, [mode |-> "perUnit",
                    currentMonthly |-> Coalesce(NumField(i, "resellPrice"), Num(65)),
                    proposedMonthly |-> Num(32), oneTimeCost |-> Num(0)])
    ELSE IF k = "isp" /\ StrField(i, "ispMode") # "new"
    THEN Spread(i, [mode |-> "perUnit", proposedMonthly |-> Num(32),
                    oneTimeCost |-> Num(5000)])
    ELSE i

(***************************************************************************)
(* JSON texts and values.  A parsed JSON value is [t, o]: its type and its *)
(* own enumerable properties (the entries of an object, the elements of an *)
(* array under their index; none for null and for a number), which is what *)
(* a spread copies.  A text is absent (getItem and get return null), the   *)
(* empty string, unparsable, or the text of a JSON value.                  *)
(***************************************************************************)
NoProps == <<>>
JObj(o) == [t |-> "obj", o |-> o]
JArr(o) == [t |-> "arr", o |-> o]
JNull == [t |-> "null", o |-> NoProps]
JNumber == [t |-> "num", o |-> NoProps]
JUndefined == [t |-> "undef", o |-> NoProps]

AbsentText == [kind |-> "absent", v |-> JUndefined]
EmptyText == [kind |-> "empty", v |-> JUndefined]
BadText == [kind |-> "bad", v |-> JUndefined]
JsonText(v) == [kind |-> "json", v |-> v]

\* if (text): null and "" are falsy
TextTruthy(text) == text.kind \notin {"absent", "empty"}
\* whether JSON.parse(text) returns (it throws otherwise)
ParseOk(text) == text.kind = "json"
\* JSON.parse(text) where it returns
JSONparse(text) == text.v

\* a numeric value as JSON.stringify writes it: NaN becomes null
jsonNumber(x) == IF x.t = "nan" THEN Null ELSE x
\* the fields of a record as JSON.stringify writes them
jsonFields(i) ==
    [f \in {g \in DOMAIN i : g \in StringFields \cup BooleanFields \/ i[g].t # "undef"} |->
        IF f \in StringFields \cup BooleanFields THEN i[f] ELSE jsonNumber(i[f])]

\* JSON.stringify that writes the records without their optional fields
JSONstringifyBaseFields(d) ==
    JsonText(JObj([k \in DOMAIN d |->
        JObj([f \in DOMAIN d[k] \cap DOMAIN ZERO_DEFAULTS.mobile |-> jsonFields(d[k])[f]])]))

\* JSON.stringify(data)
JSONstringify(d) == JsonText(JObj([k \in DOMAIN d |-> JObj(jsonFields(d[k]))]))

(***************************************************************************)
(* The useState initializer of data.                                       *)
(***************************************************************************)
\* ZERO_DEFAULTS as the value `initial` starts from
zeroInitial == JObj([k \in Keys |-> JObj(ZERO_DEFAULTS[k])])

\* initial after the persisted layer: JSON.parse(cached) replaces it
initialAfterCached(c) ==
    IF TextTruthy(c) /\ ParseOk(c) THEN JSONparse(c) ELSE zeroInitial

\* initial after the URL layer: { ...initial, ...JSON.parse(s) }
initialAfterUrl(initial, sv) ==
    IF TextTruthy(sv) /\ ParseOk(sv)
    THEN JObj(Spread(initial.o, JSONparse(sv).o))
    ELSE initial

\* the two layers merged the other way round: the persisted entries win
initialMergedCachedFirst(c, sv) ==
    LET u == IF TextTruthy(sv) /\ ParseOk(sv) THEN JSONparse(sv) ELSE zeroInitial
    IN IF TextTruthy(c) /\ ParseOk(c) THEN JObj(Spread(u.o, JSONparse(c).o)) ELSE u

\* initial after both layers
initialMerged(c, sv) == initialAfterUrl(initialAfterCached(c), sv)

\* whether reading a property of v throws (v is null or undefined)
PropertyReadThrows(v) == v.t \in {"null", "undef"}
\* the own properties of v[k], as a spread of v[k] copies them
propsOf(v, k) == IF k \in DOMAIN v.o THEN v.o[k].o ELSE NoProps

\* the last statement of the initializer without the normalization
rebuildRaw(initial) ==
    [k \in Keys |-> Spread(ZERO_DEFAULTS[k], propsOf(initial, k))]

\* the last statement of the initializer keeping every key of the merged object
rebuildEveryKey(initial) ==
    [k \in Keys \cup DOMAIN initial.o |->
        IF k \in Keys
        THEN normalizeForComputation(k, Spread(ZERO_DEFAULTS[k], propsOf(initial, k)))
        ELSE propsOf(initial, k)]

\* the last statement of the initializer: every category rebuilt over its
\* defaults and normalized
rebuild(initial) ==
    [k \in Keys |-> normalizeForComputation(k, Spread(ZERO_DEFAULTS[k], propsOf(initial, k)))]

\* whether the initializer throws
initializerThrows(c, sv) == PropertyReadThrows(initialMerged(c, sv))
\* the state the initializer returns
initializer(c, sv) == rebuild(initialMerged(c, sv))

(***************************************************************************)
(* NumberField: the text of the input element and the onChange handler.    *)
(***************************************************************************)
\* the amounts typed into a field
Amounts == {0, 75}
\* the numbers whose decimal text is typed
Numerals == Amounts \cup {-75}
\* what a user types: nothing, letters, or a numeral
Typed == {"", "abc"} \cup {ToString(n) : n \in Numerals}

\* parseFloat(text)
parseFloat(text) ==
    IF \E n \in Numerals : ToString(n) = text
    THEN Num(CHOOSE n \in Numerals : ToString(n) = text)
    ELSE NaN

\* e.currentTarget.value of an input of type "number": the typed text when it
\* is a number, the empty string otherwise
inputValue(typed) == IF parseFloat(typed).t = "num" THEN typed ELSE ""

\* the handler's argument to onChange without the fallback to "0"
fieldValueNoFallback(value) == Max0(parseFloat(value))

\* Math.max(0, parseFloat(e.currentTarget.value || "0"))
fieldValue(value) == Max0(parseFloat(IF value = "" THEN "0" ELSE value))

\* Math.round(n), amounts being whole
MathRound(x) == x

(***************************************************************************)
(* Effects and handlers of the page component.                             *)
(***************************************************************************)
V1 == "cocom_calc_v1"
V2 == "cocom_calc_v2"

\* the purge effect: the old key is removed when the new key holds nothing
purged(ls) ==
    IF TextTruthy(ls[V1]) /\ ~TextTruthy(ls[V2])
    THEN [ls EXCEPT ![V1] = AbsentText]
    ELSE ls

\* the persist effect writing under the key of the old schema
persistedUnderOldKey(ls, d) == [ls EXCEPT ![V1] = JSONstringify(d)]

\* the persist effect
persisted(ls, d) == [ls EXCEPT ![V2] = JSONstringify(d)]

\* the URL effect: searchParams.set("s", ...) and replaceState
urlSynced(d) == JSONstringify(d)

\* new URL(href), url.searchParams.set("s", ...) and url.toString() on the
\* other parts of the address: the path and the hash are kept, the other
\* parameters are parsed and serialized again, which writes them in the
\* form encoding
hrefWithS(r) ==
    [r EXCEPT !.others = [n \in DOMAIN r.others |-> [r.others[n] EXCEPT !.enc = "form"]]]

\* history.pushState on the number of entries
pushState(n) == n + 1
\* history.replaceState on the number of entries
replaceState(n) == n

\* the effects that depend on data, after a render with the state d, on the
\* storage ls and the parameter u: the persist effect, then the URL effect.
\* Neither catches: a setItem that throws ends the component, with the URL
\* effect run or not
Committed(ls, u, d) ==
    IF storageFull
    THEN /\ pc' = "crashed"
         /\ localStorage' = ls
         /\ \E ran \in BOOLEAN :
               /\ url' = (IF ran THEN urlSynced(d) ELSE u)
               /\ rest' = (IF ran THEN hrefWithS(rest) ELSE rest)
               /\ entries' = (IF ran THEN replaceState(entries) ELSE entries)
    ELSE /\ pc' = "ready"
         /\ localStorage' = persisted(ls, d)
         /\ url' = urlSynced(d)
         /\ rest' = hrefWithS(rest)
         /\ entries' = replaceState(entries)

\* setData followed by the effects that depend on data
SetData(d) ==
    /\ data' = d
    /\ Committed(localStorage, url, d)

\* an onChange that writes the record under the first tab, whatever the
\* active category is
OnChangeFirstTab(next, op) ==
    /\ pc = "ready"
    /\ steps < MaxSteps
    /\ SetData(Spread(data, CategoryKeys[1] :> next))
    /\ last' = op
    /\ steps' = steps + 1
    /\ UNCHANGED <<storageFull, cached, s, active, scope, view, arg, argKey, res>>

\* CategoryCard onChange: (next) => setData((d) => ({ ...d, [active]: next }))
OnChange(next, op) ==
    /\ pc = "ready"
    /\ steps < MaxSteps
    /\ SetData(Spread(data, active :> next))
    /\ last' = op
    /\ steps' = steps + 1
    /\ UNCHANGED <<storageFull, cached, s, active, scope, view, arg, argKey, res>>

inputs == data[active]

\* mounting the component on the texts ls and u: the initializer, then the
\* purge, persist and URL effects
MountOn(ls, u, op) ==
    /\ cached' = ls[V2]
    /\ s' = u
    /\ active' = "isp"
    /\ scope' = "all"
    /\ view' = "simple"
    /\ last' = op
    /\ IF initializerThrows(ls[V2], u)
       THEN /\ pc' = "crashed"
            /\ data' = NoProps
            /\ localStorage' = ls
            /\ url' = u
            /\ UNCHANGED <<rest, entries>>
       ELSE /\ data' = initializer(ls[V2], u)
            /\ Committed(purged(ls), u, initializer(ls[V2], u))
    /\ UNCHANGED <<storageFull, arg, argKey, res>>

\* the first mount of the page
Boot ==
    /\ pc = "boot"
    /\ MountOn(localStorage, url, "load")
    /\ UNCHANGED steps

\* the page is opened again: in the same browser with the same address
\* ("both"), in the same browser without the parameter ("storage"), or from
\* the shared link in a browser that holds nothing ("link")
Reload(via) ==
    /\ pc = "ready"
    /\ steps < MaxSteps
    /\ MountOn(IF via = "link" THEN [k \in DOMAIN localStorage |-> AbsentText]
               ELSE localStorage,
               IF via = "storage" THEN AbsentText ELSE url,
               "reload")
    /\ steps' = steps + 1

\* "Include in totals" switch
ToggleEnabled(b) ==
    /\ pc = "ready"
    /\ OnChange(With(inputs, "enabled", b), "toggle")

\* agreement type buttons that store the record without normalizing it
SetIspModeStoredRaw(m) ==
    /\ pc = "ready"
    /\ active = "isp"
    /\ OnChange(With(inputs, "ispMode", m), "toggle")

\* isp: the agreement type buttons
SetIspMode(m) ==
    /\ pc = "ready"
    /\ active = "isp"
    /\ OnChange(normalizeForComputation("isp", With(inputs, "ispMode", m)), "toggle")

\* biznet: the bulk agreement switch
ToggleBulk(b) ==
    /\ pc = "ready"
    /\ active = "biznet"
    /\ OnChange(normalizeForComputation("biznet", With(inputs, "bulkAgreement", b)), "toggle")

\* voip, mobile: the flat / per-unit switch
ToggleMode(b) ==
    /\ pc = "ready"
    /\ active \notin {"isp", "biznet"}
    /\ OnChange(normalizeForComputation(active,
                    With(inputs, "mode", IF b THEN "perUnit" ELSE "flat")), "toggle")

\* units field: shown for isp, and for voip and mobile in per-unit mode
EditUnits(typed) ==
    /\ pc = "ready"
    /\ active = "isp" \/ (active # "biznet" /\ inputs.mode = "perUnit")
    /\ OnChange(With(inputs, "units", Max0(MathRound(fieldValue(inputValue(typed))))), "edit")

\* current field: hidden for isp under the new agreement
EditCurrent(typed) ==
    /\ pc = "ready"
    /\ active = "isp" => StrField(inputs, "ispMode") # "new"
    /\ OnChange(With(inputs, "currentMonthly", fieldValue(inputValue(typed))), "edit")

\* proposed field: disabled for isp, voip and biznet
EditProposed(typed) ==
    /\ pc = "ready"
    /\ active \notin {"isp", "voip", "biznet"}
    /\ OnChange(With(inputs, "proposedMonthly", fieldValue(inputValue(typed))), "edit")

\* isp under the new agreement: resell price
EditResell(typed) ==
    /\ pc = "ready"
    /\ active = "isp" /\ StrField(inputs, "ispMode") = "new"
    /\ OnChange(With(inputs, "resellPrice", fieldValue(inputValue(typed))), "edit")

\* isp under the new agreement: door fee
EditDoorFee(typed) ==
    /\ pc = "ready"
    /\ active = "isp" /\ StrField(inputs, "ispMode") = "new"
    /\ OnChange(With(inputs, "doorFeePerUnit", fieldValue(inputValue(typed))), "edit")

\* one-time cost field: not shown for isp
EditOneTime(typed) ==
    /\ pc = "ready"
    /\ active # "isp"
    /\ OnChange(With(inputs, "oneTimeCost", fieldValue(inputValue(typed))), "edit")

\* term field: not shown for isp
EditTerm(typed) ==
    /\ pc = "ready"
    /\ active # "isp"
    /\ OnChange(With(inputs, "termMonths", fieldValue(inputValue(typed))), "edit")

\* a Clear that resets the record of the active category alone
ClearActiveOnly ==
    /\ pc = "ready"
    /\ steps < MaxSteps
    /\ SetData(Spread(data, active :> ZERO_DEFAULTS[active]))
    /\ last' = "clear"
    /\ steps' = steps + 1
    /\ UNCHANGED <<storageFull, cached, s, active, scope, view, arg, argKey, res>>

\* "Clear (zeros)" button
Clear ==
    /\ pc = "ready"
    /\ steps < MaxSteps
    /\ data' = ZERO_DEFAULTS
    /\ Committed(IF storageFull THEN localStorage
                 ELSE [localStorage EXCEPT ![V2] = JSONstringify(ZERO_DEFAULTS)],
                 url, ZERO_DEFAULTS)
    /\ last' = "clear"
    /\ steps' = steps + 1
    /\ UNCHANGED <<storageFull, cached, s, active, scope, view, arg, argKey, res>>

\* "Load demo" button
LoadDemo ==
    /\ pc = "ready"
    /\ steps < MaxSteps
    /\ data' = DEMO_DEFAULTS
    /\ Committed(IF storageFull THEN localStorage
                 ELSE [localStorage EXCEPT ![V2] = JSONstringify(DEMO_DEFAULTS)],
                 url, DEMO_DEFAULTS)
    /\ active' = "isp"
    /\ last' = "demo"
    /\ steps' = steps + 1
    /\ UNCHANGED <<storageFull, cached, s, scope, view, arg, argKey, res>>

\* a tab click that also stores the normalized record of the tab
SetActiveNormalizing(k) ==
    /\ pc = "ready"
    /\ steps < MaxSteps
    /\ active' = k
    /\ SetData(Spread(data, k :> normalizeForComputation(k, data[k])))
    /\ last' = "active"
    /\ steps' = steps + 1
    /\ UNCHANGED <<storageFull, cached, s, scope, view, arg, argKey, res>>

\* category tabs
SetActive(k) ==
    /\ pc = "ready"
    /\ steps < MaxSteps
    /\ active' = k
    /\ last' = "active"
    /\ steps' = steps + 1
    /\ UNCHANGED <<pc, localStorage, url, rest, entries, storageFull, cached, s, data,
                   scope, view, arg, argKey, res>>

\* "All categories" / "Selected only"; the buttons are rendered in the
\* advanced view
SetScope(sc) ==
    /\ pc = "ready"
    /\ steps < MaxSteps
    /\ view = "advanced"
    /\ scope' = sc
    /\ last' = "scope"
    /\ steps' = steps + 1
    /\ UNCHANGED <<pc, localStorage, url, rest, entries, storageFull, cached, s, data,
                   active, view, arg, argKey, res>>

\* "Simple" / "Advanced"; the view has two values and a change of it is
\* not counted among the steps
SetView(v) ==
    /\ pc = "ready"
    /\ view' = v
    /\ UNCHANGED <<pc, localStorage, url, rest, entries, storageFull, cached, s, data,
                   active, scope, last, steps, arg, argKey, res>>

(***************************************************************************)
(* Aggregates.                                                             *)
(***************************************************************************)
\* Object.keys(d): the category keys in insertion order
objectKeys(d) == SelectSeq(CategoryKeys, LAMBDA k : k \in DOMAIN d)

\* the keys filtered by the enabled flag, then by the scope
filteredKeys(d, act, sc) ==
    SelectSeq(SelectSeq(objectKeys(d), LAMBDA k : d[k].enabled),
              LAMBDA k : IF sc = "all" THEN TRUE ELSE k = act)

\* the keys filtered by the scope alone
filteredKeysIgnoringEnabled(d, act, sc) ==
    SelectSeq(objectKeys(d), LAMBDA k : IF sc = "all" THEN TRUE ELSE k = act)

\* the KPIs of the card: normalized, then computeKPIs(normalized)
cardKpis(k, i) == computeKPIs(normalizeForComputation(k, i))

\* the KPIs of a category computed from the stored record as it is
kpiOfStored(d, k) == computeKPIs(d[k])

\* the KPIs a category shows: computeKPIs(normalizeForComputation(k, d[k]))
kpiOf(d, k) == computeKPIs(normalizeForComputation(k, d[k]))

\* let current = 0, ...; keys.forEach((k) => { ... }): the KPIs of each key
\* added to the sums, and its stored oneTimeCost to oneTime
RECURSIVE totalsOver(_, _)
totalsOver(d, keys) ==
    IF keys = <<>>
    THEN [current |-> Num(0), proposed |-> Num(0), monthlySavings |-> Num(0),
          annualSavings |-> Num(0), lifetimeSavings |-> Num(0), oneTime |-> Num(0)]
    ELSE LET k == keys[Len(keys)]
             sums == totalsOver(d, SubSeq(keys, 1, Len(keys) - 1))
             kpi == kpiOf(d, k)
         IN [current |-> Add(sums.current, kpi.current),
             proposed |-> Add(sums.proposed, kpi.proposed),
             monthlySavings |-> Add(sums.monthlySavings, kpi.monthlySavings),
             annualSavings |-> Add(sums.annualSavings, kpi.annualSavings),
             lifetimeSavings |-> Add(sums.lifetimeSavings, kpi.lifetimeSavings),
             oneTime |-> Add(sums.oneTime, OrZero(d[k].oneTimeCost))]

\* totals that skip the filter by the enabled flag
totalsIgnoringEnabled(d, act, sc) == totalsOver(d, filteredKeysIgnoringEnabled(d, act, sc))

\* the totals memo
totals(d, act, sc) == totalsOver(d, filteredKeys(d, act, sc))

\* the base of the fee: the annual savings without the door fee, floored per category
RECURSIVE baseAnnualOver(_, _)
baseAnnualOver(d, keys) ==
    IF keys = <<>> THEN Num(0)
    ELSE LET kpi == kpiOf(d, keys[Len(keys)])
         IN Add(baseAnnualOver(d, SubSeq(keys, 1, Len(keys) - 1)),
                Max0(Sub(kpi.annualSavings, OrZero(kpi.doorBenefit))))

\* a bulk agreement fee that follows the one-time cost of the normalized isp
\* record: nothing under a new agreement
bulkFeeFromOneTimeCost(d) ==
    IF d.isp.enabled THEN normalizeForComputation("isp", d.isp).oneTimeCost ELSE Num(0)

\* the bulk agreement fee: charged if isp is included
bulkFeeOf(d) == IF d.isp.enabled THEN Num(5000) ELSE Num(0)

\* feeRate * baseAnnual + bulkFee in tenths of a dollar, feeRate being 0.3
feeTenthsOf(baseAnnual, bulkFee) == Add(Mul(Num(3), baseAnnual), Mul(Num(10), bulkFee))

\* coCom charging the percentage on the annual savings with the door fee
coComOnFullAnnual(d, act, sc) ==
    LET baseAnnual == totals(d, act, sc).annualSavings
        fee == feeTenthsOf(baseAnnual, bulkFeeOf(d))
    IN [baseAnnual |-> baseAnnual, bulkFee |-> bulkFeeOf(d), feeTenths |-> fee,
        netTenths |-> Max0(Sub(Mul(Num(10), baseAnnual), fee))]

\* the coCom memo; fee and net are in tenths of a dollar
coCom(d, act, sc) ==
    LET baseAnnual == baseAnnualOver(d, filteredKeys(d, act, sc))
        fee == feeTenthsOf(baseAnnual, bulkFeeOf(d))
        annual == totals(d, act, sc).annualSavings
    IN [baseAnnual |-> baseAnnual, bulkFee |-> bulkFeeOf(d), feeTenths |-> fee,
        netTenths |-> Max0(Sub(Mul(Num(10), annual), fee))]

\* the series of the chart over a list of keys, with no filter on the value
RECURSIVE chartOverUnfiltered(_, _)
chartOverUnfiltered(d, keys) ==
    IF keys = <<>> THEN <<>>
    ELSE LET k == keys[Len(keys)]
         IN Append(chartOverUnfiltered(d, SubSeq(keys, 1, Len(keys) - 1)),
                   [name |-> CATEGORY_LABELS[k], value |-> kpiOf(d, k).annualSavings])

\* chartData keeping the entries of every value
chartDataUnfiltered(d, act, sc) == chartOverUnfiltered(d, filteredKeys(d, act, sc))

\* keys.map((k) => ({ name, value })).filter((d) => d.value > 0)
RECURSIVE chartOver(_, _)
chartOver(d, keys) ==
    IF keys = <<>> THEN <<>>
    ELSE LET k == keys[Len(keys)]
             value == kpiOf(d, k).annualSavings
             before == chartOver(d, SubSeq(keys, 1, Len(keys) - 1))
         IN IF Gt0(value)
            THEN Append(before, [name |-> CATEGORY_LABELS[k], value |-> value])
            ELSE before

\* the chartData memo
chartData(d, act, sc) == chartOver(d, filteredKeys(d, act, sc))

\* the pillAnnual memo: the annual savings on the badge of every tab
pillAnnual(d) ==
    [isp |-> kpiOf(d, "isp").annualSavings, voip |-> kpiOf(d, "voip").annualSavings,
     biznet |-> kpiOf(d, "biznet").annualSavings,
     mobile |-> kpiOf(d, "mobile").annualSavings]

(***************************************************************************)
(* Snapshots the page may find when it is opened.                          *)
(***************************************************************************)
\* values a snapshot may hold under a key: records with stale and foreign
\* fields, and null
StaleRecord ==
    JObj([mode |-> "flat", units |-> Num(2), currentMonthly |-> Num(75),
          proposedMonthly |-> Num(7), oneTimeCost |-> Num(9), bulkAgreement |-> TRUE])
NewAgreementRecord ==
    JObj([mode |-> "other", ispMode |-> "new", units |-> Num(5),
          doorFeePerUnit |-> Num(200), resellPrice |-> Null,
          currentMonthly |-> Num(150)])
ForeignRecord ==
    JObj([units |-> Num(-1), currentMonthly |-> Null, termMonths |-> Num(12),
          enabled |-> FALSE])
SnapValues == {StaleRecord, NewAgreementRecord, JNull}

\* keys a snapshot may hold: the categories and a key of an older schema
SnapKeys == Keys \cup {"wifi"}

\* the objects with at most MaxSnapKeys keys
SnapObjects ==
    UNION {[ks -> SnapValues] : ks \in {x \in SUBSET SnapKeys : Cardinality(x) <= MaxSnapKeys}}

\* the texts of a layer: absent, empty, unparsable, JSON that is no object
\* of records, and the objects
LayerTexts ==
    {AbsentText, EmptyText, BadText, JsonText(JNull), JsonText(JNumber),
     JsonText(JArr("0" :> StaleRecord))}
    \cup {JsonText(JObj(o)) : o \in SnapObjects}

\* texts under the old key
LegacyTexts == {AbsentText, JsonText(JObj([isp |-> StaleRecord]))}

\* a stored snapshot and a shared link for the runs of the page
StoredSnapshot ==
    JsonText(JObj([voip |-> NewAgreementRecord, mobile |-> StaleRecord, wifi |-> StaleRecord]))
SharedLink ==
    JsonText(JObj([isp |-> NewAgreementRecord, mobile |-> ForeignRecord]))

NoResult == [op |-> "none"]

\* the page before it is mounted
Unmounted ==
    /\ pc = "boot"
    /\ cached = AbsentText
    /\ s = AbsentText
    /\ data = NoProps
    /\ active = "isp"
    /\ scope = "all"
    /\ view = "simple"
    /\ last = "none"
    /\ steps = 0
    /\ arg = NoProps
    /\ argKey = "isp"
    /\ res = NoResult

\* the other parts of the address: of the bare page in a new tab, and of a
\* link with a parameter of its own, percent-encoded, and a hash
PlainAddress == [path |-> "/", others |-> <<>>, hash |-> ""]
LinkedAddress ==
    [path |-> "/calc",
     others |-> <<[name |-> "ref", value |-> "a b", enc |-> "percent"]>>,
     hash |-> "#totals"]

Init ==
    /\ Unmounted
    /\ storageFull = FALSE
    /\ \E env \in {<<AbsentText, AbsentText, AbsentText, PlainAddress, 1>>,
                   <<JsonText(JObj([isp |-> StaleRecord])), StoredSnapshot, SharedLink,
                     LinkedAddress, 3>>} :
          /\ localStorage = [k \in {V1, V2} |-> IF k = V1 THEN env[1] ELSE env[2]]
          /\ url = env[3]
          /\ rest = env[4]
          /\ entries = env[5]

Next ==
    \/ Boot
    \/ \E via \in {"both", "storage", "link"} : Reload(via)
    \/ \E b \in BOOLEAN : ToggleEnabled(b)
    \/ \E m \in {"current", "new"} : SetIspMode(m)
    \/ \E b \in BOOLEAN : ToggleBulk(b)
    \/ \E b \in BOOLEAN : ToggleMode(b)
    \/ \E typed \in Typed : EditUnits(typed)
    \/ \E typed \in Typed : EditCurrent(typed)
    \/ \E typed \in Typed : EditProposed(typed)
    \/ \E typed \in Typed : EditResell(typed)
    \/ \E typed \in Typed : EditDoorFee(typed)
    \/ \E typed \in Typed : EditOneTime(typed)
    \/ \E typed \in Typed : EditTerm(typed)
    \/ Clear
    \/ LoadDemo
    \/ \E k \in Keys : SetActive(k)
    \/ \E sc \in {"all", "selected"} : SetScope(sc)
    \/ \E v \in {"simple", "advanced"} : SetView(v)

Spec == Init /\ [][Next]_vars

\* the storage starts to refuse writes (the quota is used up, or the browser
\* withdraws the storage)
StorageFills ==
    /\ pc \in {"boot", "ready"}
    /\ ~storageFull
    /\ storageFull' = TRUE
    /\ UNCHANGED <<pc, localStorage, url, rest, entries, cached, s, data, active, scope,
                   view, last, steps, arg, argKey, res>>

NextFull == Next \/ StorageFills

\* the running page with a storage that may refuse writes
SpecFull == Init /\ [][NextFull]_vars

\* the page opened on any pair of layers
InitLoad ==
    /\ Unmounted
    /\ \E old \in LegacyTexts, cur \in LayerTexts :
          localStorage = [k \in {V1, V2} |-> IF k = V1 THEN old ELSE cur]
    /\ url \in LayerTexts
    /\ rest = PlainAddress
    /\ entries = 1
    /\ storageFull = FALSE

NextLoad == Boot

SpecLoad == InitLoad /\ [][NextLoad]_vars

(***************************************************************************)
(* Evaluation of the pure functions on bounded inputs.                     *)
(***************************************************************************)
\* the required fields of a record
RequiredParts ==
    [mode : {"flat", "perUnit"},
     units : {Num(0), Num(5)},
     currentMonthly : {Num(0), Num(65), Num(200)},
     proposedMonthly : {Num(0), Num(100)},
     oneTimeCost : {Num(0), Num(1200)},
     termMonths : {Num(0), Num(12)},
     enabled : {TRUE}]

\* the optional fields of a record, each present or absent
OptionalParts ==
    {Spread(Spread(a, b), Spread(c, d)) :
        a \in {NoProps, [ispMode |-> "current"], [ispMode |-> "new"]},
        b \in {NoProps, [resellPrice |-> Num(90)]},
        c \in {NoProps, [doorFeePerUnit |-> Num(200)]},
        d \in {NoProps, [bulkAgreement |-> TRUE], [bulkAgreement |-> FALSE]}}

\* the records of the self-tests
SelfTests ==
    {[mode |-> "perUnit", units |-> Num(10), currentMonthly |-> Num(60),
      proposedMonthly |-> Num(30), oneTimeCost |-> Num(1200), termMonths |-> Num(12),
      enabled |-> TRUE],
     [mode |-> "perUnit", units |-> Num(5), currentMonthly |-> Num(65),
      proposedMonthly |-> Num(32), oneTimeCost |-> Num(0), termMonths |-> Num(0),
      enabled |-> TRUE, ispMode |-> "new", resellPrice |-> Num(65),
      doorFeePerUnit |-> Num(200)],
     [mode |-> "flat", units |-> Num(0), currentMonthly |-> Num(200),
      proposedMonthly |-> Num(100), oneTimeCost |-> Num(0), termMonths |-> Num(0),
      enabled |-> TRUE],
     [mode |-> "perUnit", units |-> Num(0), currentMonthly |-> Num(0),
      proposedMonthly |-> Num(30), oneTimeCost |-> Num(0), termMonths |-> Num(0),
      enabled |-> TRUE],
     [mode |-> "flat", units |-> Num(1), currentMonthly |-> Num(350),
      proposedMonthly |-> Num(120), oneTimeCost |-> Num(0), termMonths |-> Num(0),
      enabled |-> TRUE, bulkAgreement |-> TRUE],
     [mode |-> "perUnit", units |-> Num(10), currentMonthly |-> Num(55),
      proposedMonthly |-> Num(32), oneTimeCost |-> Num(0), termMonths |-> Num(0),
      enabled |-> TRUE, ispMode |-> "current"]}

\* records with foreign values, as a snapshot may hold them
ForeignInputs ==
    {[mode |-> "other", units |-> Num(-1), currentMonthly |-> Null,
      proposedMonthly |-> Num(7), oneTimeCost |-> Null, termMonths |-> Num(-3),
      enabled |-> FALSE, ispMode |-> "new", resellPrice |-> Null,
      doorFeePerUnit |-> Num(200)],
     [mode |-> "other", units |-> Num(3), currentMonthly |-> Num(80),
      proposedMonthly |-> Null, oneTimeCost |-> Num(-5), termMonths |-> Null,
      enabled |-> TRUE, ispMode |-> "legacy", bulkAgreement |-> TRUE]}

PureInputs ==
    {Spread(r, o) : r \in RequiredParts, o \in OptionalParts} \cup SelfTests \cup ForeignInputs

InitPure ==
    /\ pc = "eval"
    /\ localStorage = [k \in {V1, V2} |-> AbsentText]
    /\ url = AbsentText
    /\ rest = PlainAddress
    /\ entries = 1
    /\ storageFull = FALSE
    /\ cached = AbsentText
    /\ s = AbsentText
    /\ data = NoProps
    /\ active = "isp"
    /\ scope = "all"
    /\ view = "simple"
    /\ last = "none"
    /\ steps = 0
    /\ arg \in PureInputs
    /\ argKey \in Keys
    /\ res = NoResult

\* normalizeForComputation applied once and twice
EvalNormalize ==
    /\ pc = "eval"
    /\ pc' = "done"
    /\ res' = [op |-> "normalize",
               out |-> normalizeForComputation(argKey, arg),
               again |-> normalizeForComputation(argKey, normalizeForComputation(argKey, arg))]
    /\ UNCHANGED <<localStorage, url, rest, entries, storageFull, cached, s, data,
                   active, scope, view, last, steps, arg, argKey>>

\* computeKPIs applied to the record and to the normalized record
EvalKPIs ==
    /\ pc = "eval"
    /\ pc' = "done"
    /\ res' = [op |-> "kpis",
               raw |-> computeKPIs(arg),
               out |-> computeKPIs(normalizeForComputation(argKey, arg))]
    /\ UNCHANGED <<localStorage, url, rest, entries, storageFull, cached, s, data,
                   active, scope, view, last, steps, arg, argKey>>

NextPure == EvalNormalize \/ EvalKPIs

SpecPure == InitPure /\ [][NextPure]_vars

(***************************************************************************)
(* Properties of the pure functions.                                       *)
(***************************************************************************)
\* a number that is zero or more
NonNegative(x) == x.t = "num" /\ x.n >= 0

\* a record with one of the two modes and non-negative units and rates
ValidInputs(i) ==
    /\ i.mode \in {"flat", "perUnit"}
    /\ NonNegative(i.units)
    /\ NonNegative(i.currentMonthly)
    /\ NonNegative(i.proposedMonthly)

\* C1: for a record in either mode with non-negative units and rates,
\* computeKPIs returns a monthlySavings that is a number not below zero, and
\* that is exactly zero when the proposed monthly total exceeds the current
\* one; the same holds of the record after normalization.
C1_SavingsNeverNegative ==
    (res.op = "kpis" /\ ValidInputs(arg)) =>
        /\ NonNegative(res.raw.monthlySavings)
        /\ NonNegative(res.out.monthlySavings)
        /\ (Gt(res.raw.proposed, res.raw.current) => res.raw.monthlySavings = Num(0))
        /\ (Gt(res.out.proposed, res.out.current) => res.out.monthlySavings = Num(0))

\* a valid record whose proposed total exceeds its current total
C1_ProposedExceedsCurrent ==
    /\ res.op = "kpis"
    /\ ValidInputs(arg)
    /\ arg.mode = "perUnit"
    /\ res.raw.proposed = Num(500)
    /\ res.raw.current = Num(325)
    /\ res.raw.monthlySavings = Num(0)

\* C2: normalizing a record that is already normalized returns it unchanged,
\* for every category key and every record.
C2_NormalizeIdempotent ==
    res.op = "normalize" => res.again = res.out

\* a voice record that is unused, which normalization changes
C2_NormalizeChangesUnusedVoip ==
    /\ res.op = "normalize"
    /\ argKey = "voip"
    /\ arg.mode = "perUnit"
    /\ arg.units = Num(0)
    /\ arg.currentMonthly = Num(65)
    /\ res.out # arg
    /\ res.again = res.out

(***************************************************************************)
(* Properties of the load.                                                 *)
(***************************************************************************)
\* whether a layer's text is JSON of an object
IsMapping(text) == text.kind = "json" /\ text.v.t = "obj"
\* the keys a layer holds
LayerKeys(text) == IF IsMapping(text) THEN DOMAIN text.v.o ELSE {}
\* the fields a layer holds under a key
LayerRecord(text, k) == text.v.o[k].o

\* the value of a key after the merge: the URL's when the URL holds the
\* key, else the persisted one, else nothing beyond the defaults
MergedRecord(k) ==
    IF k \in LayerKeys(s) THEN LayerRecord(s, k)
    ELSE IF k \in LayerKeys(cached) THEN LayerRecord(cached, k)
    ELSE NoProps

\* C3: a load that returns has, under every category key, the normalized
\* record of the defaults overlaid with the URL snapshot's value when the
\* URL snapshot holds the key, else with the persisted snapshot's value when
\* that holds the key, else the defaults alone.
C3_MergePrecedence ==
    (pc = "ready" /\ last = "load") =>
        \A k \in Keys :
            data[k] = normalizeForComputation(k, Spread(ZERO_DEFAULTS[k], MergedRecord(k)))

\* a key held by both layers with different records: the URL's units load
C3_KeyInBothLayers ==
    /\ pc = "ready"
    /\ last = "load"
    /\ "mobile" \in LayerKeys(s) \cap LayerKeys(cached)
    /\ s.v.o["mobile"] = NewAgreementRecord
    /\ cached.v.o["mobile"] = StaleRecord
    /\ data["mobile"].units = Num(5)
    /\ data["mobile"].mode = "other"

\* a layer as the load is specified to see it: anything that is not JSON of
\* an object counts as absent
AsSpecified(text) == IF IsMapping(text) THEN text ELSE AbsentText

\* C4: a load never fails: with a layer that is absent, empty, unparsable, or
\* JSON of something that is not an object (null, a number, an array), it
\* returns the state it returns when that layer is absent.
C4_LoadNeverFatal ==
    last = "load" =>
        /\ pc = "ready"
        /\ data = initializer(AsSpecified(cached), AsSpecified(s))

\* the used test of the voice rule
UsedService(i) ==
    IF i.mode = "flat" THEN Gt0(i.currentMonthly)
    ELSE Gt0(i.units) /\ Gt0(i.currentMonthly)

\* C5: after a load that returns, whatever the two layers held: isp is
\* perUnit with proposedMonthly 32 and oneTimeCost 5000 for an existing
\* agreement and 0 for a new one; biznet is flat with proposedMonthly 0 under
\* a bulk agreement and 120 otherwise; voip has proposedMonthly 30 when used
\* and 0 when unused.
C5_LoadedFixedFields ==
    (pc = "ready" /\ last = "load") =>
        /\ data["isp"].mode = "perUnit"
        /\ data["isp"].proposedMonthly = Num(32)
        /\ data["isp"].oneTimeCost =
              (IF StrField(data["isp"], "ispMode") = "new" THEN Num(0) ELSE Num(5000))
        /\ data["biznet"].mode = "flat"
        /\ data["biznet"].proposedMonthly =
              (IF BoolField(data["biznet"], "bulkAgreement") THEN Num(0) ELSE Num(120))
        /\ data["voip"].proposedMonthly =
              (IF UsedService(data["voip"]) THEN Num(30) ELSE Num(0))

\* a persisted isp record with stale fixed fields, loaded with the fixed ones
C5_StaleRecordLoaded ==
    /\ pc = "ready"
    /\ last = "load"
    /\ "isp" \in LayerKeys(cached)
    /\ "isp" \notin LayerKeys(s)
    /\ cached.v.o["isp"] = StaleRecord
    /\ data["isp"].mode = "perUnit"
    /\ data["isp"].proposedMonthly = Num(32)
    /\ data["isp"].oneTimeCost = Num(5000)

(***************************************************************************)
(* Properties of the running page.                                         *)
(***************************************************************************)
\* C6: a snapshot written from a state S and loaded again, from the store,
\* from the link or from both, gives under every key k the record
\* normalize(k, S[k]), and gives S itself when S was itself loaded.
C6_RoundTrip ==
    [][(pc = "ready" /\ last' = "reload" /\ steps' = steps + 1) =>
          /\ pc' = "ready"
          /\ DOMAIN data' = Keys
          /\ \A k \in Keys : data'[k] = normalizeForComputation(k, data[k])
          /\ (last \in {"load", "reload"} => data' = data)]_vars

\* a state loaded again from the link alone after the new agreement was
\* chosen: the optional fields came back
C6_ReloadedFromLink ==
    /\ pc = "ready"
    /\ last = "reload"
    /\ localStorage[V1] = AbsentText
    /\ cached = AbsentText
    /\ IsMapping(s)
    /\ StrField(data["isp"], "ispMode") = "new"
    /\ data["isp"].oneTimeCost = Num(0)
    /\ data["voip"].proposedMonthly = Num(0)

\* C7: while the page runs, the text stored under cocom_calc_v2 and the s
\* parameter of the URL are both the JSON text of the current state.
C7_SnapshotsFollowState ==
    pc = "ready" =>
        /\ V2 = "cocom_calc_v2"
        /\ localStorage[V2] = JSONstringify(data)
        /\ url = JSONstringify(data)

\* an edit has changed the state and both snapshots hold the new amount
C7_SnapshotsAfterEdit ==
    /\ pc = "ready"
    /\ last = "edit"
    /\ data["isp"].currentMonthly = Num(75)
    /\ IsMapping(url)
    /\ url.v.o["isp"].o.currentMonthly = Num(75)
    /\ localStorage[V2].v.o["isp"].o.currentMonthly = Num(75)

\* the enabled categories kept by the scope
InScope(act, sc) == {k \in Keys : data[k].enabled /\ (sc = "all" \/ k = act)}

\* the normalized record and the KPIs of every category of the state
Shown ==
    LET norm == [isp |-> normalizeForComputation("isp", data["isp"]),
                 voip |-> normalizeForComputation("voip", data["voip"]),
                 biznet |-> normalizeForComputation("biznet", data["biznet"]),
                 mobile |-> normalizeForComputation("mobile", data["mobile"])]
    IN [inputs |-> norm,
        kpis |-> [isp |-> computeKPIs(norm["isp"]), voip |-> computeKPIs(norm["voip"]),
                  biznet |-> computeKPIs(norm["biznet"]),
                  mobile |-> computeKPIs(norm["mobile"])]]

\* the sum of f over a set of keys
RECURSIVE SumOver(_, _)
SumOver(f, ks) ==
    IF ks = {} THEN Num(0)
    ELSE LET k == CHOOSE x \in ks : TRUE IN Add(f[k], SumOver(f, ks \ {k}))

\* C8: for every active category and scope, ten times the fee is three times
\* the sum over the categories in scope of max(0, annualSavings - namedBenefit)
\* plus ten times 5000 when isp is enabled; ten times the net is max(0, ten
\* times the total annual savings less that); the net is never negative.
C8_FeeAndNet ==
    pc = "ready" =>
        LET kpis == Shown.kpis
            less == [k \in Keys |-> Max0(Sub(kpis[k].annualSavings, kpis[k].doorBenefit))]
            annuals == [k \in Keys |-> kpis[k].annualSavings]
            surcharge == IF data["isp"].enabled THEN Num(5000) ELSE Num(0)
        IN \A act \in Keys, sc \in {"all", "selected"} :
              LET c == coCom(data, act, sc)
                  fee == Add(Mul(Num(3), SumOver(less, InScope(act, sc))),
                             Mul(Num(10), surcharge))
              IN /\ c.feeTenths = fee
                 /\ c.netTenths = Max0(Sub(Mul(Num(10), SumOver(annuals, InScope(act, sc))), fee))
                 /\ NonNegative(c.netTenths)

\* the demo state under a new agreement: the annual savings are 89280, of
\* which 24000 are the named benefit; the fee is 0.3 * 65280 + 5000
C8_DemoNewAgreementFee ==
    /\ pc = "ready"
    /\ last = "toggle"
    /\ StrField(data["isp"], "ispMode") = "new"
    /\ data["isp"].units = Num(120)
    /\ data["mobile"] = DEMO_DEFAULTS["mobile"]
    /\ totals(data, active, scope).annualSavings = Num(89280)
    /\ coCom(data, active, scope).feeTenths = Num(245840)
    /\ coCom(data, active, scope).netTenths = Num(646960)

\* the named benefit of a record: the fee per unit times the units under a
\* new agreement, and zero otherwise
NamedBenefit(i) ==
    IF StrField(i, "ispMode") = "new" /\ "doorFeePerUnit" \in DOMAIN i
       /\ Truthy(i.doorFeePerUnit) /\ Truthy(i.units)
    THEN Mul(i.doorFeePerUnit, i.units)
    ELSE Num(0)

\* C9: for every category of the state, annualSavings is twelve times
\* monthlySavings plus the named benefit, which is doorFeePerUnit * units for
\* a record under a new agreement and 0 otherwise; the total annual savings
\* include the named benefits and the fee base excludes them.
C9_NamedBenefit ==
    pc = "ready" =>
        LET norm == Shown.inputs
            kpis == Shown.kpis
            benefit == [k \in Keys |-> NamedBenefit(norm[k])]
            withBenefit == [k \in Keys |-> Add(Mul(Num(12), kpis[k].monthlySavings), benefit[k])]
            without == [k \in Keys |-> Mul(Num(12), kpis[k].monthlySavings)]
        IN /\ \A k \in Keys :
                /\ kpis[k].doorBenefit = benefit[k]
                /\ kpis[k].annualSavings = withBenefit[k]
           /\ \A act \in Keys, sc \in {"all", "selected"} :
                /\ totals(data, act, sc).annualSavings = SumOver(withBenefit, InScope(act, sc))
                /\ coCom(data, act, sc).baseAnnual = SumOver(without, InScope(act, sc))

\* isp under a new agreement with 5 units at 200 a unit: the benefit is 1000,
\* it is in the total and not in the fee base
C9_FiveUnitsAtTwoHundred ==
    /\ pc = "ready"
    /\ StrField(data["isp"], "ispMode") = "new"
    /\ data["isp"].enabled
    /\ data["isp"].units = Num(5)
    /\ data["isp"].doorFeePerUnit = Num(200)
    /\ kpiOf(data, "isp").doorBenefit = Num(1000)
    /\ totals(data, "isp", "selected").annualSavings =
          Add(coCom(data, "isp", "selected").baseAnnual, Num(1000))

\* C10: for every active category and scope, the totals of current, proposed,
\* monthlySavings, annualSavings and lifetimeSavings are the sums of the
\* categories' KPIs over the enabled categories kept by the scope, and the
\* oneTime total is the sum of their stored oneTimeCost; a disabled category
\* adds nothing.
C10_TotalsOverScope ==
    pc = "ready" =>
        LET kpis == Shown.kpis
        IN \A act \in Keys, sc \in {"all", "selected"} :
              LET tt == totals(data, act, sc)
                  ks == InScope(act, sc)
              IN /\ tt.current = SumOver([k \in Keys |-> kpis[k].current], ks)
                 /\ tt.proposed = SumOver([k \in Keys |-> kpis[k].proposed], ks)
                 /\ tt.monthlySavings = SumOver([k \in Keys |-> kpis[k].monthlySavings], ks)
                 /\ tt.annualSavings = SumOver([k \in Keys |-> kpis[k].annualSavings], ks)
                 /\ tt.lifetimeSavings = SumOver([k \in Keys |-> kpis[k].lifetimeSavings], ks)
                 /\ tt.oneTime = SumOver([k \in Keys |-> data[k].oneTimeCost], ks)

\* the demo state with isp switched off: its savings and its one-time cost
\* are in no total
C10_DisabledLeftOut ==
    /\ pc = "ready"
    /\ ~data["isp"].enabled
    /\ kpiOf(data, "isp").monthlySavings = Num(2760)
    /\ data["isp"].oneTimeCost = Num(5000)
    /\ totals(data, "isp", "all").monthlySavings = Num(1480)
    /\ totals(data, "isp", "all").oneTime = Num(0)
    /\ totals(data, "isp", "selected").monthlySavings = Num(0)

(***************************************************************************)
(* Properties of the ratios of computeKPIs.                                *)
(***************************************************************************)
\* r is the number x / y, for whole numbers x and y with y > 0
IsQuotient(r, x, y) ==
    \/ r.t = "num" /\ r.n * y = x
    \/ r.t = "ratio" /\ r.d > 0 /\ r.n * y = x * r.d

\* r is a number below zero
IsNegative(r) == r.t \in {"num", "ratio"} /\ r.n < 0

\* the reduction of the KPIs k as specified
ReductionAsSpecified(k) ==
    LET c == k.current.n
        p == k.proposed.n
    IN /\ (c > 0 => IsQuotient(k.reduction, c - p, c))
       /\ (c = 0 => k.reduction = Num(0))
       /\ ((p > c /\ c > 0) => (IsNegative(k.reduction) /\ k.monthlySavings = Num(0)))
       /\ ((c = 200 /\ p = 100) => k.reduction = Ratio(1, 2))

\* C11: for a record in either mode with non-negative units and rates,
\* reduction is (current - proposed) / current when the current total is
\* above 0 and 0 when it is 0; it is below zero whenever proposed > current > 0,
\* where monthlySavings is 0; for current 200 and proposed 100 it is 1/2.
C11_ReductionNotFloored ==
    (res.op = "kpis" /\ ValidInputs(arg)) =>
        /\ ReductionAsSpecified(res.raw)
        /\ ReductionAsSpecified(res.out)

\* a price increase: proposed 500 over current 325 gives reduction -7/13
\* next to savings of 0
C11_NegativeReduction ==
    /\ res.op = "kpis"
    /\ ValidInputs(arg)
    /\ res.raw.current = Num(325)
    /\ res.raw.proposed = Num(500)
    /\ res.raw.reduction = Ratio(-7, 13)
    /\ res.raw.monthlySavings = Num(0)

\* the roi of the KPIs k of the record i as specified
RoiAsSpecified(i, k) ==
    LET cost == i.oneTimeCost.n
        annual == k.annualSavings.n
    IN /\ (cost > 0 =>
             IsQuotient(k.roi, annual - cost, IF cost > 1 THEN cost ELSE 1))
       /\ ((cost = 0 /\ annual > 0) => k.roi = Infinity)
       /\ ((cost = 0 /\ annual = 0) => k.roi = Num(0))

\* the record of the first self-test
IsFirstSelfTest(i) ==
    /\ i.mode = "perUnit"
    /\ i.units = Num(10)
    /\ i.currentMonthly = Num(60)
    /\ i.proposedMonthly = Num(30)
    /\ i.oneTimeCost = Num(1200)
    /\ i.termMonths = Num(12)

\* C12: for a record in either mode with non-negative units, rates and
\* one-time cost, roi is (annualSavings - oneTimeCost) / max(1, oneTimeCost)
\* when oneTimeCost is above 0, and otherwise infinity when annualSavings is
\* above 0 and 0 when it is 0; perUnit, 10 units, current 60, proposed 30,
\* one-time cost 1200 gives monthlySavings 300, annualSavings 3600, roi 2.
C12_Roi ==
    (res.op = "kpis" /\ ValidInputs(arg) /\ NonNegative(arg.oneTimeCost)) =>
        /\ RoiAsSpecified(arg, res.raw)
        /\ RoiAsSpecified(normalizeForComputation(argKey, arg), res.out)
        /\ IsFirstSelfTest(arg) =>
              /\ res.raw.monthlySavings = Num(300)
              /\ res.raw.annualSavings = Num(3600)
              /\ res.raw.roi = Num(2)

\* the first self-test evaluated
C12_FirstSelfTest ==
    /\ res.op = "kpis"
    /\ IsFirstSelfTest(arg)
    /\ "ispMode" \notin DOMAIN arg
    /\ res.raw.annualSavings = Num(3600)
    /\ res.raw.roi = Num(2)

(***************************************************************************)
(* Properties of the normalization rules.                                  *)
(***************************************************************************)
\* a and b agree on every field outside fs
SameExcept(a, b, fs) ==
    /\ DOMAIN a \ fs = DOMAIN b \ fs
    /\ \A f \in DOMAIN a \ fs : a[f] = b[f]

\* a service that is not used, for a record in one of the two modes
Unused(i) ==
    \/ i.mode = "flat" /\ i.currentMonthly = Num(0)
    \/ i.mode = "perUnit" /\ (i.units = Num(0) \/ i.currentMonthly = Num(0))

\* C13: normalizing a voip record changes proposedMonthly alone, to 0 or to
\* 30 whatever it was; for a record in either mode with non-negative units
\* and rates it is 0 when the service is unused (flat with currentMonthly 0,
\* perUnit with units 0 or currentMonthly 0) and 30 otherwise, and the
\* proposed total of an unused service is 0.
C13_UnusedVoipNotCharged ==
    (res.op = "normalize" /\ argKey = "voip") =>
        /\ SameExcept(res.out, arg, {"proposedMonthly"})
        /\ res.out.proposedMonthly \in {Num(0), Num(30)}
        /\ ValidInputs(arg) =>
              /\ res.out.proposedMonthly = (IF Unused(arg) THEN Num(0) ELSE Num(30))
              /\ Unused(arg) => computeKPIs(res.out).proposed = Num(0)

\* the fourth self-test: perUnit, no units, no current price, proposed 30
C13_UnusedVoip ==
    /\ res.op = "normalize"
    /\ argKey = "voip"
    /\ arg.mode = "perUnit"
    /\ arg.units = Num(0)
    /\ arg.currentMonthly = Num(0)
    /\ arg.proposedMonthly = Num(30)
    /\ res.out.proposedMonthly = Num(0)
    /\ computeKPIs(res.out).proposed = Num(0)

\* C14: normalizing an isp record gives mode perUnit and proposedMonthly 32;
\* when ispMode is not new, oneTimeCost 5000 and the entered currentMonthly;
\* when ispMode is new, oneTimeCost 0 and currentMonthly equal to resellPrice,
\* or to 65 when the record has no resellPrice; every other field is kept.
C14_IspAgreementRule ==
    (res.op = "normalize" /\ argKey = "isp") =>
        /\ SameExcept(res.out, arg,
                      {"mode", "currentMonthly", "proposedMonthly", "oneTimeCost"})
        /\ res.out.mode = "perUnit"
        /\ res.out.proposedMonthly = Num(32)
        /\ StrField(arg, "ispMode") # "new" =>
              /\ res.out.oneTimeCost = Num(5000)
              /\ res.out.currentMonthly = arg.currentMonthly
        /\ StrField(arg, "ispMode") = "new" =>
              /\ res.out.oneTimeCost = Num(0)
              /\ res.out.currentMonthly =
                    (IF "resellPrice" \in DOMAIN arg /\ arg.resellPrice # Null
                     THEN arg.resellPrice ELSE Num(65))

\* a flat record under the new agreement without a resell price, with an
\* entered rate of 200 and an entered one-time cost
C14_NewAgreementWithoutResellPrice ==
    /\ res.op = "normalize"
    /\ argKey = "isp"
    /\ StrField(arg, "ispMode") = "new"
    /\ "resellPrice" \notin DOMAIN arg
    /\ arg.mode = "flat"
    /\ arg.currentMonthly = Num(200)
    /\ arg.oneTimeCost = Num(1200)
    /\ res.out.mode = "perUnit"
    /\ res.out.currentMonthly = Num(65)
    /\ res.out.oneTimeCost = Num(0)

\* C15: normalizing a biznet record gives mode flat and proposedMonthly 0
\* when bulkAgreement is true and 120 when it is false or absent, whatever
\* mode and proposedMonthly it carried; every other field is kept, and with
\* bulkAgreement true the proposed total is 0.
C15_BiznetRule ==
    (res.op = "normalize" /\ argKey = "biznet") =>
        /\ SameExcept(res.out, arg, {"mode", "proposedMonthly"})
        /\ res.out.mode = "flat"
        /\ res.out.proposedMonthly =
              (IF "bulkAgreement" \in DOMAIN arg /\ arg.bulkAgreement
               THEN Num(0) ELSE Num(120))
        /\ ("bulkAgreement" \in DOMAIN arg /\ arg.bulkAgreement) =>
              computeKPIs(res.out).proposed = Num(0)

\* a perUnit record with proposed 100 and bulkAgreement present and false
C15_NoBulkAgreement ==
    /\ res.op = "normalize"
    /\ argKey = "biznet"
    /\ arg.mode = "perUnit"
    /\ arg.proposedMonthly = Num(100)
    /\ "bulkAgreement" \in DOMAIN arg
    /\ ~arg.bulkAgreement
    /\ res.out.mode = "flat"
    /\ res.out.proposedMonthly = Num(120)

(***************************************************************************)
(* Properties of the writes, the keys and the entries.                     *)
(***************************************************************************)
\* C16: a storage write that fails is swallowed: when the storage refuses
\* writes, the page keeps running after the first render and after every
\* state change.
C16_WriteFailureSwallowed ==
    storageFull => pc # "crashed"

\* a text is held under a key
Held(ls, key) == ls[key] # AbsentText

\* C17: after startup, whatever the storage held, it does not hold both
\* cocom_calc_v1 and cocom_calc_v2, and the state is the one loaded from
\* cocom_calc_v2 and the URL alone.
C17_OldKeyPurged ==
    (pc = "ready" /\ last = "load") =>
        /\ V1 = "cocom_calc_v1"
        /\ ~(Held(localStorage, V1) /\ Held(localStorage, V2))
        /\ data = initializer(cached, s)

\* the other parameters of an address as parsed: names and values
Decoded(r) == [n \in DOMAIN r.others |-> <<r.others[n].name, r.others[n].value>>]

NumberFields ==
    {"units", "currentMonthly", "proposedMonthly", "oneTimeCost", "termMonths",
     "resellPrice", "doorFeePerUnit"}

\* C19: whatever is typed, the number the field hands to its handler is a
\* finite number not below 0, unparsable text giving 0; an edit leaves the
\* page running, and every numeric field of the edited record that it
\* changed holds a finite number not below 0.
C19_EntriesClamped ==
    [][(pc = "ready" /\ last' = "edit" /\ steps' = steps + 1) =>
          /\ \A typed \in Typed : NonNegative(fieldValue(inputValue(typed)))
          /\ fieldValue(inputValue("abc")) = Num(0)
          /\ fieldValue(inputValue("-75")) = Num(0)
          /\ pc' = "ready"
          /\ \A f \in NumberFields \cap DOMAIN data'[active] :
                (f \notin DOMAIN data[active] \/ data'[active][f] # data[active][f])
                    => NonNegative(data'[active][f])]_vars

\* units of -1 came in with the link; an edit of the field has replaced them
C19_NegativeUnitsReplaced ==
    /\ pc = "ready"
    /\ last = "edit"
    /\ active = "mobile"
    /\ IsMapping(s)
    /\ s.v.o["mobile"].o.units = Num(-1)
    /\ NonNegative(data["mobile"].units)

\* the fields every record has
RequiredFields ==
    {"mode", "units", "currentMonthly", "proposedMonthly", "oneTimeCost", "termMonths",
     "enabled"}

\* C20: in every state of the running page the keys of the state are the
\* four categories, each with a record of all the required fields; a key of
\* a snapshot that is no category is not in the state.
C20_ClosedKeySet ==
    pc = "ready" =>
        /\ DOMAIN data = Keys
        /\ Keys = {"isp", "voip", "biznet", "mobile"}
        /\ \A k \in Keys : RequiredFields \subseteq DOMAIN data[k]

\* the persisted snapshot held the key wifi; the state after two more steps
\* has the four keys
C20_ForeignKeyDropped ==
    /\ pc = "ready"
    /\ steps = 2
    /\ "wifi" \in LayerKeys(cached)
    /\ DOMAIN data = Keys

(***************************************************************************)
(* Properties of the handlers of the page.                                 *)
(***************************************************************************)
\* the JSON value of a map of records
MapValue(d) == JObj([k \in DOMAIN d |-> JObj(d[k])])

\* C21: from any state of the running page, Clear makes the state the
\* all-zero defaults map and Load demo makes it the demo map, whatever the
\* state held before, and the snapshot stored under cocom_calc_v2 afterwards
\* parses to the same map.
C21_WholeMapResets ==
    [][/\ (pc = "ready" /\ last' = "clear" /\ steps' = steps + 1) =>
             /\ pc' = "ready"
             /\ data' = ZERO_DEFAULTS
             /\ JSONparse(localStorage'[V2]) = MapValue(ZERO_DEFAULTS)
       /\ (pc = "ready" /\ last' = "demo" /\ steps' = steps + 1) =>
             /\ pc' = "ready"
             /\ data' = DEMO_DEFAULTS
             /\ JSONparse(localStorage'[V2]) = MapValue(DEMO_DEFAULTS)]_vars

\* Clear pressed on a state loaded from a snapshot with a voip record under
\* a new agreement: the record is the default one, without that field
C21_ClearedLoadedState ==
    /\ pc = "ready"
    /\ last = "clear"
    /\ IsMapping(cached)
    /\ StrField(LayerRecord(cached, "voip"), "ispMode") = "new"
    /\ data = ZERO_DEFAULTS
    /\ "ispMode" \notin DOMAIN data["voip"]
    /\ JSONparse(localStorage[V2]) = MapValue(ZERO_DEFAULTS)

\* C22: a field edit or a switch toggle leaves the record of every category
\* other than the active one as it was, keeps the keys of the state, and
\* leaves active, scope and view unchanged; only the record of the active
\* category may differ.
C22_EditFrame ==
    [][(pc = "ready" /\ last' \in {"edit", "toggle"} /\ steps' = steps + 1) =>
          /\ DOMAIN data' = DOMAIN data
          /\ \A k \in DOMAIN data \ {active} : data'[k] = data[k]
          /\ active' = active
          /\ scope' = scope
          /\ view' = view]_vars

\* the current price of mobile edited to 75 on the page opened from the
\* link: the other three records are the loaded ones
C22_MobileEdited ==
    /\ pc = "ready"
    /\ last = "edit"
    /\ active = "mobile"
    /\ IsMapping(s)
    /\ data["mobile"].currentMonthly = Num(75)
    /\ data["mobile"] # initializer(cached, s)["mobile"]
    /\ \A k \in Keys \ {"mobile"} : data[k] = initializer(cached, s)[k]

(***************************************************************************)
(* Properties of the chart and of the fee.                                 *)
(***************************************************************************)
\* C23: for every active category and scope, the chart series has exactly
\* one entry, under the category's label and with its annual savings, for
\* each enabled category kept by the scope whose annualSavings is above 0,
\* and no entry with a value of zero or below.
C23_ChartSeries ==
    pc = "ready" =>
        LET kpis == Shown.kpis
        IN \A act \in Keys, sc \in {"all", "selected"} :
              LET c == chartData(data, act, sc)
                  slices == {k \in InScope(act, sc) : Gt0(kpis[k].annualSavings)}
              IN /\ Len(c) = Cardinality(slices)
                 /\ {c[n] : n \in 1..Len(c)} =
                       {[name |-> CATEGORY_LABELS[k], value |-> kpis[k].annualSavings] :
                           k \in slices}
                 /\ \A n \in 1..Len(c) : Gt0(c[n].value)

\* the page opened from the link: isp and voip are slices, biznet is
\* enabled with no savings and is none, mobile is switched off
C23_NoSliceWithoutSavings ==
    /\ pc = "ready"
    /\ data["biznet"].enabled
    /\ kpiOf(data, "biznet").annualSavings = Num(0)
    /\ ~data["mobile"].enabled
    /\ Len(chartData(data, active, "all")) = 2
    /\ chartData(data, active, "all")[1].name = "ISP Bulk Service"
    /\ chartData(data, active, "all")[2].name = "VoIP and POTS Cost Optimization"

C25_NormalizedBeforeKpis ==
    pc = "ready" =>
        LET norm == Shown.inputs
            kpis == Shown.kpis
            ks == InScope(active, scope)
            tt == totals(data, active, scope)
            chart == chartData(data, active, scope)
            less == [k \in Keys |-> Max0(Sub(kpis[k].annualSavings, kpis[k].doorBenefit))]
        IN /\ cardKpis(active, inputs) = kpis[active]
           /\ \A k \in Keys : pillAnnual(data)[k] = kpis[k].annualSavings
           /\ tt.current = SumOver([k \in Keys |-> kpis[k].current], ks)
           /\ tt.proposed = SumOver([k \in Keys |-> kpis[k].proposed], ks)
           /\ tt.monthlySavings = SumOver([k \in Keys |-> kpis[k].monthlySavings], ks)
           /\ tt.annualSavings = SumOver([k \in Keys |-> kpis[k].annualSavings], ks)
           /\ tt.lifetimeSavings = SumOver([k \in Keys |-> kpis[k].lifetimeSavings], ks)
           /\ tt.oneTime = SumOver([k \in Keys |-> norm[k].oneTimeCost], ks)
           /\ \A n \in 1..Len(chart) :
                 \E k \in ks : /\ chart[n].name = CATEGORY_LABELS[k]
                                /\ chart[n].value = kpis[k].annualSavings
           /\ coCom(data, active, scope).baseAnnual = SumOver(less, ks)

\* the current price of voip edited from 0 to 75: the stored proposed price
\* is still the 0 of the unused service, and the card, the badge and the
\* totals charge the fixed 30
C25_StoredVoipPriceLeftOver ==
    /\ pc = "ready"
    /\ last = "edit"
    /\ active = "voip"
    /\ inputs.mode = "flat"
    /\ inputs.currentMonthly = Num(75)
    /\ inputs.proposedMonthly = Num(0)
    /\ cardKpis(active, inputs).proposed = Num(30)
    /\ cardKpis(active, inputs).monthlySavings = Num(45)
    /\ pillAnnual(data)["voip"] = Num(540)
    /\ totals(data, active, "selected").monthlySavings = Num(45)

\* C26: in every state of the running page no term of the fee base is cut
\* by its floor: for every category annualSavings less the named benefit is
\* twelve times monthlySavings and not below 0; the fee base of the page is
\* twelve times the total monthlySavings, and it is also the total
\* annualSavings less the total named benefit, floored once.
C26_FloorNeverBinds ==
    pc = "ready" =>
        LET kpis == Shown.kpis
            net == [k \in Keys |-> Sub(kpis[k].annualSavings, kpis[k].doorBenefit)]
            benefit == [k \in Keys |-> kpis[k].doorBenefit]
            base == coCom(data, active, scope).baseAnnual
            tt == totals(data, active, scope)
        IN /\ \A k \in Keys :
                /\ net[k] = Mul(Num(12), kpis[k].monthlySavings)
                /\ Max0(net[k]) = net[k]
           /\ base = Mul(Num(12), tt.monthlySavings)
           /\ base = Max0(Sub(tt.annualSavings, SumOver(benefit, InScope(active, scope))))

\* isp under a new agreement with a named benefit of 1000 next to biznet,
\* whose proposed price is above its current one: the base is twelve times
\* the monthly savings and 1000 below the annual savings of isp
C26_BenefitAndFlooredSavings ==
    /\ pc = "ready"
    /\ data["isp"].enabled
    /\ kpiOf(data, "isp").doorBenefit = Num(1000)
    /\ kpiOf(data, "isp").monthlySavings = Num(165)
    /\ data["biznet"].enabled
    /\ Gt(kpiOf(data, "biznet").proposed, kpiOf(data, "biznet").current)
    /\ coCom(data, "isp", "selected").baseAnnual = Num(1980)
    /\ totals(data, "isp", "selected").annualSavings = Num(2980)

\* C27: for every active category and scope, the flat surcharge is 5000
\* when the stored isp record is enabled and 0 when it is not, whatever the
\* scope, the active category and the agreement of isp are, and the fee is
\* three tenths of the base plus that surcharge.
C27_SurchargeFollowsIspEnabled ==
    pc = "ready" =>
        \A act \in Keys, sc \in {"all", "selected"} :
            LET c == coCom(data, act, sc)
            IN /\ c.bulkFee = (IF data["isp"].enabled THEN Num(5000) ELSE Num(0))
               /\ c.feeTenths = Add(Mul(Num(3), c.baseAnnual), Mul(Num(10), c.bulkFee))

\* "Selected only" with the voip tab open and isp under a new agreement,
\* its one-time cost normalized to 0: the 5000 are charged
C27_ChargedOutOfScope ==
    /\ pc = "ready"
    /\ scope = "selected"
    /\ active = "voip"
    /\ data["isp"].enabled
    /\ StrField(data["isp"], "ispMode") = "new"
    /\ kpiOf(data, "isp").doorBenefit = Num(1000)
    /\ normalizeForComputation("isp", data["isp"]).oneTimeCost = Num(0)
    /\ coCom(data, active, scope).bulkFee = Num(5000)
    /\ coCom(data, active, scope).baseAnnual = Mul(Num(12), kpiOf(data, "voip").monthlySavings)

(***************************************************************************)
(* Properties of the stored state.                                         *)
(***************************************************************************)
\* C28: a step that changes the active category, the scope or the view by
\* a tab or a button changes neither the state, nor the storage, nor the
\* URL; the state, the snapshot under cocom_calc_v2 and the s parameter
\* change only in a load, a field edit, a switch toggle, Clear or Load demo.
C28_NavigationFrame ==
    [][/\ ((last' \in {"active", "scope"} /\ steps' = steps + 1)
            \/ (view' # view /\ steps' = steps /\ last' = last)) =>
              /\ data' = data
              /\ localStorage' = localStorage
              /\ url' = url
              /\ rest' = rest
       /\ (data' # data \/ localStorage'[V2] # localStorage[V2] \/ url' # url) =>
              last' \in {"load", "reload", "edit", "toggle", "clear", "demo"}]_vars

\* "Selected only" pressed on the mobile tab of the page opened from the
\* link: the state is the loaded one and both snapshots are its text
C28_ScopeChangedAfterLoad ==
    /\ pc = "ready"
    /\ last = "scope"
    /\ steps = 2
    /\ scope = "selected"
    /\ active = "mobile"
    /\ IsMapping(s)
    /\ data = initializer(cached, s)
    /\ localStorage[V2] = JSONstringify(initializer(cached, s))
    /\ url = JSONstringify(initializer(cached, s))

\* C29: in every state of the running page the stored isp record has mode
\* perUnit, proposedMonthly 32 and oneTimeCost 0 under a new agreement and
\* 5000 otherwise; the stored biznet record has mode flat and
\* proposedMonthly 0 with the bulk agreement and 120 without; and the stored
\* oneTimeCost of every category, which the totals sum, is the oneTimeCost
\* of its normalized record, which roi and payback use.
C29_StoredFixedFields ==
    pc = "ready" =>
        /\ data["isp"].mode = "perUnit"
        /\ data["isp"].proposedMonthly = Num(32)
        /\ data["isp"].oneTimeCost =
              (IF StrField(data["isp"], "ispMode") = "new" THEN Num(0) ELSE Num(5000))
        /\ data["biznet"].mode = "flat"
        /\ data["biznet"].proposedMonthly =
              (IF "bulkAgreement" \in DOMAIN data["biznet"] /\ data["biznet"].bulkAgreement
               THEN Num(0) ELSE Num(120))
        /\ \A k \in Keys :
              data[k].oneTimeCost = normalizeForComputation(k, data[k]).oneTimeCost
        /\ \A act \in Keys :
              totals(data, act, "selected").oneTime =
                  (IF data[act].enabled
                   THEN normalizeForComputation(act, data[act]).oneTimeCost ELSE Num(0))

\* the new agreement chosen on the page opened with nothing stored, then
\* the units edited: the stored one-time cost went from 5000 to 0 and the
\* edit has kept it
C29_NewAgreementThenEdit ==
    /\ pc = "ready"
    /\ last = "edit"
    /\ steps = 2
    /\ cached = AbsentText
    /\ s = AbsentText
    /\ StrField(data["isp"], "ispMode") = "new"
    /\ data["isp"].units = Num(75)
    /\ data["isp"].oneTimeCost = Num(0)
    /\ totals(data, "isp", "selected").oneTime = Num(0)

\* C30: in every state of the running page, also one loaded from a
\* snapshot, the named benefit of voip, biznet and mobile is 0 and their
\* annualSavings is twelve times their monthlySavings; only isp carries a
\* named benefit.
C30_BenefitOnlyForIsp ==
    pc = "ready" =>
        LET kpis == Shown.kpis
        IN \A k \in Keys \ {"isp"} :
              /\ kpis[k].doorBenefit = Num(0)
              /\ kpis[k].annualSavings = Mul(Num(12), kpis[k].monthlySavings)

====
